---------------------------- MODULE Spec2Model ----------------------------
(***************************************************************************)
(* Model of ms-graph-email/scripts/email-check.py: one run of the CLI.     *)
(*                                                                         *)
(* Python strings are tuples of one-character strings, Python dicts are    *)
(* functions over their keys, Python lists are tuples.  A text that the    *)
(* program receives from outside (the stdout of the secret-store command,  *)
(* the body of an HTTP response) is a record that carries what json.loads  *)
(* makes of it: [valid |-> FALSE, raw |-> chars] for a text that is not    *)
(* JSON, [valid |-> TRUE, value |-> v] otherwise, v being tagged with its  *)
(* JSON type.  A printed line is a record whose field lit is the literal   *)
(* part of the print (with {} where a value is interpolated) and whose     *)
(* other fields are the interpolated values.  The emoji that prefix some   *)
(* of the program's lines are left out of lit.                             *)
(***************************************************************************)
EXTENDS Integers, Sequences, FiniteSets, TLC

VARIABLES
    argv,           \* sys.argv
    pc,             \* position of the run
    mailbox,        \* main: mailbox
    result,         \* get_credentials: result of subprocess.run
    creds,          \* main: creds
    tokenResponse,  \* get_token: response
    token,          \* main: token
    listResponse,   \* check_emails: response
    emails,         \* main: emails
    i,              \* main: number of completed iterations of the for loop
    out,            \* stdout, the lines printed so far
    err,            \* stderr, the uncaught exception if any
    exit,           \* <<>> while running, <<status>> once the process ended
    calls           \* the external calls made so far, in order

vars == <<argv, pc, mailbox, result, creds, tokenResponse, token,
          listResponse, emails, i, out, err, exit, calls>>

-----------------------------------------------------------------------------
(* Bounds and input sets *)

MaxEmails == 2

None == <<"None">>
Undefined == [undefined |-> TRUE]

Script == <<"e", ".", "p", "y">>
Mailbox == <<"u", "@", "x">>

Range(s) == {s[k] : k \in 1..Len(s)}

Min(a, b) == IF a < b THEN a ELSE b

(* Python semantics used by the program *)

\* str(v) as an f-string interpolates it
Str(v) == IF v = None THEN <<"N", "o", "n", "e">> ELSE v

\* s[:n]
Slice(s, n) == SubSeq(s, 1, Min(n, Len(s)))

\* s.replace(a, b) for one-character a and b
Replace(s, a, b) == [k \in 1..Len(s) |-> IF s[k] = a THEN b ELSE s[k]]

\* c * n
Repeat(c, n) == [k \in 1..n |-> c]

\* d.get(key, default) on a dict; Python has evaluated default already
Get(d, key, default) == IF key \in DOMAIN d THEN d[key] ELSE default

\* json.loads(text) / response.json()
json_loads(text) ==
    IF text.valid THEN [ok |-> TRUE, value |-> text.value]
    ELSE [ok |-> FALSE, exc |-> "JSONDecodeError"]

\* v[key] on a parsed JSON value
Subscript(v, key) ==
    IF v.type # "object" THEN [ok |-> FALSE, exc |-> "TypeError"]
    ELSE IF key \notin DOMAIN v.members THEN [ok |-> FALSE, exc |-> "KeyError"]
    ELSE [ok |-> TRUE, value |-> v.members[key]]

Garbage == [valid |-> FALSE, raw |-> <<"o", "o", "p", "s">>]
Obj(m) == [valid |-> TRUE, value |-> [type |-> "object", members |-> m]]
Arr(s) == [valid |-> TRUE, value |-> [type |-> "array", items |-> s]]

-----------------------------------------------------------------------------
(* What the program's surroundings can hand it *)

Argvs == {<<Script>>, <<Script, <<>>>>, <<Script, Mailbox>>}

ReturnCodes == {0, 44}

CredKeys == {"tenant_id", "client_id", "client_secret"}

Secret == [tenant_id |-> <<"t">>, client_id |-> <<"c">>, client_secret |-> <<"s">>]

Stdouts == {Garbage, Arr(<<>>)} \cup {Obj([k \in S |-> Secret[k]]) : S \in SUBSET CredKeys}

StatusCodes == {200, 202, 401}

AccessToken == <<"T">>

TokenTexts == {Garbage,
               Obj([access_token |-> AccessToken]),
               Obj([error |-> <<"d", "e", "n", "y">>])}

Bob == <<"B", "o", "b">>
BobAddress == <<"b", "@", "x">>
Amy == <<"A", "m", "y">>
AmyAddress == <<"a", "@", "x">>
Hi == <<"H", "i">>
Yo == <<"Y", "o">>
Stamp1 == <<"2", "0", "2", "4", "-", "0", "1", "-", "0", "1", "T",
            "1", "2", ":", "3", "4", ":", "5", "6", "Z">>
Stamp2 == <<"2", "0", "2", "4", "-", "0", "1", "-", "0", "2", "T",
            "0", "8", ":", "0", "0", ":", "0", "0", "Z">>

StampLen == 16
PreviewLen == 80
RuleLen == 50

LongPreview == Repeat("x", PreviewLen + 3)

\* every field present
MsgFull == [from |-> [emailAddress |-> [name |-> Bob, address |-> BobAddress]],
            subject |-> Hi, receivedDateTime |-> Stamp1, bodyPreview |-> LongPreview]
MsgFull2 == [from |-> [emailAddress |-> [name |-> Amy, address |-> AmyAddress]],
             subject |-> Yo, receivedDateTime |-> Stamp2, bodyPreview |-> Hi]
\* no display name, no subject, no preview
MsgBare == [from |-> [emailAddress |-> [address |-> AmyAddress]],
            receivedDateTime |-> Stamp2]
\* a display name and no address
MsgNameOnly == [from |-> [emailAddress |-> [name |-> Bob]],
                subject |-> Hi, receivedDateTime |-> Stamp1, bodyPreview |-> Hi]
\* "name": null
MsgNullName == [from |-> [emailAddress |-> [name |-> None, address |-> BobAddress]],
                subject |-> Hi, receivedDateTime |-> Stamp1, bodyPreview |-> Hi]
\* no from (a draft)
MsgNoFrom == [subject |-> Hi, receivedDateTime |-> Stamp1, bodyPreview |-> Hi]
\* no receivedDateTime
MsgNoStamp == [from |-> [emailAddress |-> [name |-> Bob, address |-> BobAddress]],
               subject |-> Hi, bodyPreview |-> Hi]

Messages == {MsgFull, MsgFull2, MsgBare, MsgNameOnly, MsgNullName, MsgNoFrom, MsgNoStamp}

MessageLists == UNION {[1..n -> Messages] : n \in 0..MaxEmails}

ListTexts == {Garbage, Obj([error |-> <<"d", "e", "n", "y">>])}
                 \cup {Obj([value |-> l]) : l \in MessageLists}

-----------------------------------------------------------------------------
(* The lines the program prints *)

UsageLines == <<[lit |-> "Usage: python3 email-check.py user@domain.com"],
                [lit |-> "Set your mailbox as the first argument"]>>

CheckingLine(m) == [lit |-> "Checking {}...", text |-> Str(m)]

NoCredentialLines ==
    <<[lit |-> "No credentials found in keychain"],
      [lit |-> "   Store credentials with:"],
      [lit |-> "   security add-generic-password -s \"openclaw-microsoft365\" -a \"graph\" \\"],
      [lit |-> "     -w '{\"tenant_id\":\"xxx\",\"client_id\":\"xxx\",\"client_secret\":\"xxx\"}' -U"]>>

AuthFailedLine(text) == [lit |-> "Auth failed: {}", body |-> text]

GetFailedLine(text) == [lit |-> "Failed to get emails: {}", body |-> text]

NoUnreadLine == [lit |-> "No unread emails"]

CountLine(n) == [lit |-> "{} unread email(s):", n |-> n]

FromLine(name) == [lit |-> "From: {}", text |-> Str(name)]
SubjectLine(subject) == [lit |-> "Subject: {}", text |-> Str(subject)]
ReceivedLine(received) == [lit |-> "Received: {}", text |-> Str(received)]
PreviewLine(preview) == [lit |-> "Preview: {}...", text |-> Str(preview)]
RuleLine == [lit |-> "{}", text |-> Repeat("-", RuleLen)]

NoSubject == <<"(", "n", "o", " ", "s", "u", "b", "j", "e", "c", "t", ")">>

-----------------------------------------------------------------------------
(* The conditions the program branches on *)

\* mutant: only a missing argument counts, an empty one does not
NoMailbox_NoneOnly(m) == m = None

\* not mailbox
NoMailbox(m) == m = None \/ m = <<>>

\* mutant: the exit code of the lookup is not looked at
LookupFailed_Never(r) == r.returncode < 0

\* result.returncode != 0
LookupFailed(r) == r.returncode # 0

\* mutant: only 4xx and 5xx count as failures
AuthFailed_ErrorsOnly(r) == r.status_code >= 400

\* response.status_code != 200 in get_token
AuthFailed(r) == r.status_code # 200

\* mutant: only 4xx and 5xx count as failures
GetFailed_ErrorsOnly(r) == r.status_code >= 400

\* response.status_code != 200 in check_emails
GetFailed(r) == r.status_code # 200

\* mutant: the empty list is not told apart
NoEmails_Never(l) == Len(l) < 0

\* not emails
NoEmails(l) == Len(l) = 0

\* mutant: the list is walked from its end
NextEmail_Reversed(l, n) == l[Len(l) - n]

\* for email in emails: the email of the iteration after n completed ones
NextEmail(l, n) == l[n + 1]

(* The ways the process ends *)

\* mutant: the process ends with status 0 whatever the code
SysExit_Zero(code) ==
    /\ exit' = <<0>>
    /\ pc' = "done"
    /\ err' = err

\* sys.exit(code)
SysExit(code) ==
    /\ exit' = <<code>>
    /\ pc' = "done"
    /\ err' = err

\* an exception that nothing catches leaves main: traceback on stderr, status 1
Raise(exc) ==
    /\ exit' = <<1>>
    /\ pc' = "done"
    /\ err' = Append(err, exc)

\* main returns
Return ==
    /\ exit' = <<0>>
    /\ pc' = "done"
    /\ err' = err

-----------------------------------------------------------------------------
(* The loop body *)

\* sender.get('name', sender['address'])
SenderName(sender) ==
    IF "address" \notin DOMAIN sender THEN [ok |-> FALSE, exc |-> "KeyError"]
    ELSE [ok |-> TRUE, value |-> Get(sender, "name", sender["address"])]

\* the five prints of one iteration
EntryLines(name, subject, received, preview) ==
    <<FromLine(name), SubjectLine(subject), ReceivedLine(received),
      PreviewLine(preview), RuleLine>>

\* one iteration of the for loop on email: the lines it prints, or what it raises
Entry(email) ==
    IF "from" \notin DOMAIN email THEN [ok |-> FALSE, exc |-> "KeyError"]
    ELSE IF "emailAddress" \notin DOMAIN email["from"] THEN [ok |-> FALSE, exc |-> "KeyError"]
    ELSE LET sender == email["from"]["emailAddress"]
             name == SenderName(sender)
             subject == Get(email, "subject", NoSubject)
         IN  IF ~name.ok THEN name
             ELSE IF "receivedDateTime" \notin DOMAIN email
                  THEN [ok |-> FALSE, exc |-> "KeyError"]
             ELSE LET received == Replace(Slice(email["receivedDateTime"], StampLen), "T", " ")
                      preview == Slice(Get(email, "bodyPreview", <<>>), PreviewLen)
                  IN  [ok |-> TRUE,
                       lines |-> EntryLines(name.value, subject, received, preview)]

-----------------------------------------------------------------------------
(* The run *)

Init ==
    /\ argv \in Argvs
    /\ pc = "main"
    /\ mailbox = None
    /\ result = Undefined
    /\ creds = Undefined
    /\ tokenResponse = Undefined
    /\ token = None
    /\ listResponse = Undefined
    /\ emails = <<>>
    /\ i = 0
    /\ out = <<>>
    /\ err = <<>>
    /\ exit = <<>>
    /\ calls = <<>>

\* main, up to the call of get_credentials
Main ==
    /\ pc = "main"
    /\ LET m == IF Len(argv) > 1 THEN argv[2] ELSE None
       IN  /\ mailbox' = m
           /\ IF NoMailbox(m)
              THEN /\ out' = out \o UsageLines
                   /\ SysExit(1)
              ELSE /\ out' = Append(out, CheckingLine(m))
                   /\ pc' = "get_credentials"
                   /\ UNCHANGED <<exit, err>>
    /\ UNCHANGED <<argv, result, creds, tokenResponse, token, listResponse,
                   emails, i, calls>>

\* get_credentials: the secret-store command cannot be started
GetCredentialsNoCommand ==
    /\ pc = "get_credentials"
    /\ calls' = Append(calls, "lookup")
    /\ Raise("FileNotFoundError")
    /\ UNCHANGED <<argv, mailbox, result, creds, tokenResponse, token,
                   listResponse, emails, i, out>>

\* get_credentials: the secret-store command ran
GetCredentials ==
    /\ pc = "get_credentials"
    /\ \E rc \in ReturnCodes, text \in Stdouts :
        LET r == [returncode |-> rc, stdout |-> text]
            parsed == json_loads(r.stdout)
        IN  /\ result' = r
            /\ calls' = Append(calls, "lookup")
            /\ IF LookupFailed(r)
               THEN /\ out' = out \o NoCredentialLines
                    /\ SysExit(1)
                    /\ creds' = creds
               ELSE IF parsed.ok
               THEN /\ creds' = parsed.value
                    /\ pc' = "get_token"
                    /\ UNCHANGED <<exit, err, out>>
               ELSE /\ Raise(parsed.exc)
                    /\ UNCHANGED <<creds, out>>
    /\ UNCHANGED <<argv, mailbox, tokenResponse, token, listResponse, emails, i>>

\* get_token: building the request fails, the POST is not sent
GetTokenBadCreds ==
    /\ pc = "get_token"
    /\ LET tenant == Subscript(creds, "tenant_id")
           id == Subscript(creds, "client_id")
           secret == Subscript(creds, "client_secret")
       IN  /\ ~(tenant.ok /\ id.ok /\ secret.ok)
           /\ Raise(IF ~tenant.ok THEN tenant.exc
                    ELSE IF ~id.ok THEN id.exc ELSE secret.exc)
    /\ UNCHANGED <<argv, mailbox, result, creds, tokenResponse, token,
                   listResponse, emails, i, out, calls>>

CredsUsable ==
    /\ Subscript(creds, "tenant_id").ok
    /\ Subscript(creds, "client_id").ok
    /\ Subscript(creds, "client_secret").ok

\* get_token: the POST gets no response
GetTokenNoResponse ==
    /\ pc = "get_token"
    /\ CredsUsable
    /\ calls' = Append(calls, "post")
    /\ Raise("ConnectionError")
    /\ UNCHANGED <<argv, mailbox, result, creds, tokenResponse, token,
                   listResponse, emails, i, out>>

\* get_token: the POST is answered
GetToken ==
    /\ pc = "get_token"
    /\ CredsUsable
    /\ \E code \in StatusCodes, text \in TokenTexts :
        LET r == [status_code |-> code, text |-> text]
            parsed == json_loads(r.text)
            field == IF parsed.ok THEN Subscript(parsed.value, "access_token") ELSE parsed
        IN  /\ tokenResponse' = r
            /\ calls' = Append(calls, "post")
            /\ IF AuthFailed(r)
               THEN /\ out' = Append(out, AuthFailedLine(r.text))
                    /\ SysExit(1)
                    /\ token' = token
               ELSE IF field.ok
               THEN /\ token' = field.value
                    /\ pc' = "check_emails"
                    /\ UNCHANGED <<exit, err, out>>
               ELSE /\ Raise(field.exc)
                    /\ UNCHANGED <<token, out>>
    /\ UNCHANGED <<argv, mailbox, result, creds, listResponse, emails, i>>

\* check_emails: the GET gets no response
CheckEmailsNoResponse ==
    /\ pc = "check_emails"
    /\ calls' = Append(calls, "get")
    /\ Raise("ConnectionError")
    /\ UNCHANGED <<argv, mailbox, result, creds, tokenResponse, token,
                   listResponse, emails, i, out>>

\* check_emails: the GET is answered
CheckEmails ==
    /\ pc = "check_emails"
    /\ \E code \in StatusCodes, text \in ListTexts :
        LET r == [status_code |-> code, text |-> text]
            parsed == json_loads(r.text)
        IN  /\ listResponse' = r
            /\ calls' = Append(calls, "get")
            /\ IF GetFailed(r)
               THEN /\ out' = Append(out, GetFailedLine(r.text))
                    /\ SysExit(1)
                    /\ emails' = emails
               ELSE IF parsed.ok
               THEN /\ emails' = Get(parsed.value.members, "value", <<>>)
                    /\ pc' = "report"
                    /\ UNCHANGED <<exit, err, out>>
               ELSE /\ Raise(parsed.exc)
                    /\ UNCHANGED <<emails, out>>
    /\ UNCHANGED <<argv, mailbox, result, creds, tokenResponse, token, i>>

\* main, from the return of check_emails to the for loop
Report ==
    /\ pc = "report"
    /\ IF NoEmails(emails)
       THEN /\ out' = Append(out, NoUnreadLine)
            /\ Return
       ELSE /\ out' = Append(out, CountLine(Len(emails)))
            /\ pc' = "for"
            /\ UNCHANGED <<exit, err>>
    /\ UNCHANGED <<argv, mailbox, result, creds, tokenResponse, token,
                   listResponse, emails, i, calls>>

\* one iteration of the for loop; after the last one main returns
PrintEmail ==
    /\ pc = "for"
    /\ i < Len(emails)
    /\ LET entry == Entry(NextEmail(emails, i))
       IN  IF ~entry.ok
           THEN /\ Raise(entry.exc)
                /\ UNCHANGED <<i, out>>
           ELSE /\ out' = out \o entry.lines
                /\ i' = i + 1
                /\ IF i + 1 = Len(emails)
                   THEN Return
                   ELSE UNCHANGED <<pc, exit, err>>
    /\ UNCHANGED <<argv, mailbox, result, creds, tokenResponse, token,
                   listResponse, emails, calls>>

Next ==
    \/ Main
    \/ GetCredentialsNoCommand
    \/ GetCredentials
    \/ GetTokenBadCreds
    \/ GetTokenNoResponse
    \/ GetToken
    \/ CheckEmailsNoResponse
    \/ CheckEmails
    \/ Report
    \/ PrintEmail

Spec == Init /\ [][Next]_vars

-----------------------------------------------------------------------------
(* Vocabulary of the properties *)

\* the variable holds what a call returned
Got(r) == "undefined" \notin DOMAIN r

LookupOk == Got(result) /\ result.returncode = 0
TokenOk == Got(tokenResponse) /\ tokenResponse.status_code = 200
ListOk == Got(listResponse) /\ listResponse.status_code = 200

\* the lookup's payload is not a JSON object with the three fields
Malformed(text) ==
    \/ ~text.valid
    \/ text.value.type # "object"
    \/ ~(CredKeys \subseteq DOMAIN text.value.members)

\* the value array of a 200 listing whose body is a JSON object
Returned == Get(listResponse.text.value.members, "value", <<>>)

EntryLits == {"From: {}", "Subject: {}", "Received: {}", "Preview: {}...", "{}"}

EntryPrinted == \E k \in 1..Len(out) : out[k].lit \in EntryLits

RulesPrinted == Cardinality({k \in 1..Len(out) : out[k] = RuleLine})

HasSender(m) ==
    /\ "from" \in DOMAIN m
    /\ "emailAddress" \in DOMAIN m["from"]

HasName(sender) == "name" \in DOMAIN sender /\ sender["name"] # None

\* a message with a sender address, a timestamp and no null display name
WellFormed(m) ==
    /\ HasSender(m)
    /\ "address" \in DOMAIN m["from"]["emailAddress"]
    /\ ("name" \in DOMAIN m["from"]["emailAddress"] => HasName(m["from"]["emailAddress"]))
    /\ "receivedDateTime" \in DOMAIN m

\* the display name, else the address
Shown(sender) == IF HasName(sender) THEN sender["name"] ELSE sender["address"]

\* the timestamps of the inputs at minute precision, date and time apart
Minute(stamp) ==
    IF stamp = Stamp1
    THEN <<"2", "0", "2", "4", "-", "0", "1", "-", "0", "1", " ", "1", "2", ":", "3", "4">>
    ELSE <<"2", "0", "2", "4", "-", "0", "1", "-", "0", "2", " ", "0", "8", ":", "0", "0">>

-----------------------------------------------------------------------------
(* C1: the external calls are made in the order lookup, POST, GET, each at  *)
(* most once; the POST only after a lookup that exited 0, the GET only      *)
(* after a token response 200, and message entries are printed only after  *)
(* a listing response 200.                                                  *)
C1_FixedOrder ==
    /\ \E n \in 0..3 : calls = SubSeq(<<"lookup", "post", "get">>, 1, n)
    /\ Len(calls) >= 2 => LookupOk
    /\ Len(calls) >= 3 => TokenOk
    /\ EntryPrinted => (Len(calls) = 3 /\ ListOk)

C1_Witness == pc = "done" /\ calls = <<"lookup", "post", "get">> /\ EntryPrinted

FinishedPrinting ==
    \/ Len(emails) = 0 /\ out[Len(out)] = NoUnreadLine
    \/ Len(emails) > 0 /\ RulesPrinted = Len(emails)

C3_ExitStatus ==
    /\ pc # "done" => exit = <<>>
    /\ pc = "done" =>
        /\ exit \in {<<0>>, <<1>>}
        /\ exit = <<0>> <=> (LookupOk /\ TokenOk /\ ListOk /\ FinishedPrinting)
        /\ (Got(result) /\ result.returncode # 0) => exit = <<1>>
        /\ (LookupOk /\ Malformed(result.stdout)) => exit = <<1>>
        /\ (Got(tokenResponse) /\ tokenResponse.status_code # 200) => exit = <<1>>
        /\ (Got(listResponse) /\ listResponse.status_code # 200) => exit = <<1>>

C3_Witness == pc = "done" /\ exit = <<0>> /\ Len(emails) > 0

(* C4: after a token response other than 200 the run has printed that       *)
(* response's body and exited 1; the POST was made once and no GET.         *)
C4_AuthFailure ==
    (Got(tokenResponse) /\ tokenResponse.status_code # 200)
        => /\ pc = "done"
           /\ exit = <<1>>
           /\ out[Len(out)] = AuthFailedLine(tokenResponse.text)
           /\ calls = <<"lookup", "post">>

C4_Witness == pc = "done" /\ Got(tokenResponse) /\ tokenResponse.status_code = 401

(* C5: after a listing response other than 200 the run has printed that     *)
(* response's body and exited 1; the GET was made once, and neither a       *)
(* message entry nor the no-unread line was printed.                        *)
C5_ApiFailure ==
    (Got(listResponse) /\ listResponse.status_code # 200)
        => /\ pc = "done"
           /\ exit = <<1>>
           /\ out[Len(out)] = GetFailedLine(listResponse.text)
           /\ calls = <<"lookup", "post", "get">>
           /\ ~EntryPrinted
           /\ \A k \in 1..Len(out) : out[k] # NoUnreadLine

C5_Witness == pc = "done" /\ Got(listResponse) /\ listResponse.status_code = 401

(* C6: after a listing response 200 with an empty value array, or with no   *)
(* value key, the whole output of the run is the no-unread line, and the    *)
(* exit status is 0.                                                        *)
EmptyListing ==
    /\ ListOk
    /\ listResponse.text.valid
    /\ Returned = <<>>

C6_OnlyNoUnread ==
    (pc = "done" /\ EmptyListing) => (out = <<NoUnreadLine>> /\ exit = <<0>>)

(* C6 as amended: the whole output is the "Checking <mailbox>..." line      *)
(* followed by the no-unread line, and the exit status is 0.                *)
C6_CheckingThenNoUnread ==
    (EmptyListing /\ pc # "report")
        => /\ pc = "done"
           /\ out = <<CheckingLine(argv[2]), NoUnreadLine>>
           /\ exit = <<0>>

C6_Witness ==
    /\ pc = "done"
    /\ EmptyListing
    /\ "value" \notin DOMAIN listResponse.text.value.members

(* C7: after a lookup that exited 0 with a payload that is not JSON or      *)
(* lacks a credential field, the run ends non-zero, has sent no POST, and   *)
(* has printed a diagnostic that is neither the missing-credential nor the  *)
(* auth-failure one.                                                        *)
C7_MalformedDiagnosed ==
    (pc = "done" /\ LookupOk /\ Malformed(result.stdout))
        => /\ exit # <<0>>
           /\ "post" \notin Range(calls)
           /\ \E k \in 2..Len(out) :
                /\ out[k] \notin Range(NoCredentialLines)
                /\ out[k].lit # "Auth failed: {}"

(* C8: a run that ends with a non-zero status has printed no message entry. *)
C8_NoPartialList ==
    (pc = "done" /\ exit # <<0>>) => ~EntryPrinted

(* C9: after a listing response 200 with a non-empty array of well-formed   *)
(* messages the run has printed, after the count line that announces the    *)
(* array's length, one entry per element in the array's order, each ending  *)
(* with the rule line, and nothing else.                                    *)
C9_OneEntryPerMessage ==
    (/\ pc = "done"
     /\ ListOk
     /\ listResponse.text.valid
     /\ Len(Returned) > 0
     /\ \A k \in 1..Len(Returned) : WellFormed(Returned[k]))
        => /\ Len(out) = 2 + 5 * Len(Returned)
           /\ out[2] = CountLine(Len(Returned))
           /\ \A k \in 1..Len(Returned) :
                LET m == Returned[k]
                    b == 2 + 5 * (k - 1)
                IN  /\ out[b + 1] = FromLine(Shown(m["from"]["emailAddress"]))
                    /\ out[b + 2] = SubjectLine(Get(m, "subject", NoSubject))
                    /\ out[b + 3] = ReceivedLine(Minute(m["receivedDateTime"]))
                    /\ out[b + 4].lit = "Preview: {}..."
                    /\ out[b + 5] = RuleLine

C9_Witness ==
    /\ pc = "done"
    /\ ListOk
    /\ listResponse.text.valid
    /\ Returned = <<MsgFull2, MsgFull>>
    /\ Len(out) = 12

(* C10: the From line of every returned message shows the display name when *)
(* there is one and the address when there is none, whenever the message    *)
(* carries at least one of the two.                                         *)
NameOrAddress(m) ==
    /\ HasSender(m)
    /\ "receivedDateTime" \in DOMAIN m
    /\ HasName(m["from"]["emailAddress"]) \/ "address" \in DOMAIN m["from"]["emailAddress"]

C10_NameElseAddress ==
    (/\ pc = "done"
     /\ ListOk
     /\ listResponse.text.valid
     /\ \A k \in 1..Len(Returned) : NameOrAddress(Returned[k]))
        => /\ Len(out) = 2 + 5 * Len(Returned)
           /\ \A k \in 1..Len(Returned) :
                out[2 + 5 * (k - 1) + 1] = FromLine(Shown(Returned[k]["from"]["emailAddress"]))

=============================================================================
